---- MODULE Spec2Model ----
(***************************************************************************)
(* A model of lumina-renderer's mesh pipeline: OBJModel (obj_model.py) and *)
(* the vertex-buffer handling of GLWidget (gl_widget.py).                  *)
(*                                                                         *)
(* Text is modelled token by token: a token is the text of one field and   *)
(* carries what float() and int() make of it.  A Python float is the pair  *)
(* <<num, den2>>, standing for num / sqrt(den2); every parsed number and   *)
(* every coordinate has den2 = 1, and only a normalised normal has more.   *)
(* An optional normal index is <<>> (None) or <<n>>.                       *)
(***************************************************************************)
EXTENDS Integers, Sequences, FiniteSets, TLC

VARIABLES file, object, vertex_buffer, vertex_count, live, last

vars == <<file, object, vertex_buffer, vertex_count, live, last>>

(***************************************************************************)
(* Bounds of the input files.                                              *)
(***************************************************************************)
\* most corners on one `f` line
MaxCorners == 4
\* most lines after the v/vn blocks of a file read by the mesh operations
MaxLines == 2
\* most lines after the v/vn blocks of a file read by the widget operations
MaxLinesGL == 1
\* most buffer names the model lets be generated and not deleted
MaxBuffers == 1

(***************************************************************************)
(* Tokens.  "int": text int() and float() both take ("2"); "dec": text     *)
(* only float() takes ("2.0"); "empty": the empty string between two       *)
(* slashes, which neither takes.                                           *)
(***************************************************************************)
IntTok(n) == [k |-> "int", n |-> n]
DecTok(n) == [k |-> "dec", n |-> n]
EmptyTok == [k |-> "empty", n |-> 0]

\* float(t) raises ValueError unless CanFloat(t); int(t) unless CanInt(t)
CanFloat(t) == t.k \in {"int", "dec"}
CanInt(t) == t.k = "int"
ToFloat(t) == <<t.n, 1>>
ToInt(t) == t.n

\* a line: its directive (what startswith sees) and parts[1:]; the parts of
\* an `f` line are given already split at '/'
Line(d, a) == [dir |-> d, args |-> a]

Min(S) == CHOOSE x \in S : \A y \in S : x <= y

(***************************************************************************)
(* Python list indexing: s[i] for -len(s) <= i < len(s), else IndexError.  *)
(***************************************************************************)
PyInRange(s, i) == -Len(s) <= i /\ i < Len(s)
PyAt(s, i) == IF i >= 0 THEN s[i + 1] ELSE s[Len(s) + i + 1]

(***************************************************************************)
(* OBJModel                                                                *)
(***************************************************************************)
\* OBJModel.__init__ before load_obj
EmptyModel ==
    [none |-> FALSE, vertices |-> <<>>, normals |-> <<>>, faces |-> <<>>,
     has_normals |-> FALSE]

\* GLWidget.object = None
NoObject ==
    [none |-> TRUE, vertices |-> <<>>, normals |-> <<>>, faces |-> <<>>,
     has_normals |-> FALSE]

\* [float(parts[1]), float(parts[2]), float(parts[3])], left to right
VecError(args) ==
    LET bad == {i \in 1..3 : i > Len(args) \/ ~CanFloat(args[i])}
    IN  IF bad = {} THEN "ok"
        ELSE IF Min(bad) > Len(args) THEN "IndexError" ELSE "ValueError"

VecValue(args) == <<ToFloat(args[1]), ToFloat(args[2]), ToFloat(args[3])>>

\* one corner: vals = part.split('/')
HasNormalField(vals) == Len(vals) > 2 /\ vals[3].k # "empty"

CornerError(vals) ==
    IF ~CanInt(vals[1]) THEN "ValueError"
    ELSE IF HasNormalField(vals) /\ ~CanInt(vals[3]) THEN "ValueError"
    ELSE "ok"

\* the same with the source's 1-based vertex index kept
CornerValueUnshifted(vals) ==
    <<ToInt(vals[1]),
      IF HasNormalField(vals) THEN <<ToInt(vals[3]) - 1>> ELSE <<>> >>

CornerValue(vals) ==
    <<ToInt(vals[1]) - 1,
      IF HasNormalField(vals) THEN <<ToInt(vals[3]) - 1>> ELSE <<>> >>

FaceError(args) ==
    LET bad == {i \in 1..Len(args) : CornerError(args[i]) # "ok"}
    IN  IF bad = {} THEN "ok" ELSE CornerError(args[Min(bad)])

FaceValue(args) == [i \in 1..Len(args) |-> CornerValue(args[i])]

\* a triangle strip where the code builds a fan
TriangulateStrip(face) ==
    IF Len(face) > 3
    THEN [i \in 1..(Len(face) - 2) |-> <<face[i], face[i + 1], face[i + 2]>>]
    ELSE <<face>>

\* the faces one `f` line appends
Triangulate(face) ==
    IF Len(face) > 3
    THEN [i \in 1..(Len(face) - 2) |-> <<face[1], face[i + 1], face[i + 2]>>]
    ELSE <<face>>

\* the flag set whatever was read
HasNormalsAlways(normals) == TRUE

\* self.has_normals = len(self.normals) > 0
HasNormalsAfterLoad(normals) == Len(normals) > 0

LineError(ln) ==
    CASE ln.dir = "v" -> VecError(ln.args)
      [] ln.dir = "vn" -> VecError(ln.args)
      [] ln.dir = "f" -> FaceError(ln.args)
      [] OTHER -> "ok"

\* one iteration of `for line in file`, for a line that raises nothing
ApplyLine(m, ln) ==
    CASE ln.dir = "v" -> [m EXCEPT !.vertices = Append(@, VecValue(ln.args))]
      [] ln.dir = "vn" -> [m EXCEPT !.normals = Append(@, VecValue(ln.args))]
      [] ln.dir = "f" ->
           [m EXCEPT !.faces = @ \o Triangulate(FaceValue(ln.args))]
      [] OTHER -> m

\* load_obj: the model and how the call ended; the first line that raises
\* ends the loop with the lines before it applied and has_normals not set
RECURSIVE LoadFrom(_, _, _)
LoadFrom(m, src, i) ==
    IF i > Len(src)
    THEN [model |-> [m EXCEPT !.has_normals = HasNormalsAfterLoad(m.normals)],
          err |-> "ok"]
    ELSE IF LineError(src[i]) # "ok"
    THEN [model |-> m, err |-> LineError(src[i])]
    ELSE LoadFrom(ApplyLine(m, src[i]), src, i + 1)

load_obj(m, src) == LoadFrom(m, src, 1)

\* OBJModel(filename)
NewModel(src) == load_obj(EmptyModel, src)

(***************************************************************************)
(* calculate_normals                                                       *)
(***************************************************************************)
Num(f) == f[1]
Sub(a, b) == <<Num(a[1]) - Num(b[1]), Num(a[2]) - Num(b[2]), Num(a[3]) - Num(b[3])>>
Cross(a, b) ==
    <<a[2] * b[3] - a[3] * b[2], a[3] * b[1] - a[1] * b[3], a[1] * b[2] - a[2] * b[1]>>
NormSquared(a) == a[1] * a[1] + a[2] * a[2] + a[3] * a[3]

\* normal / np.linalg.norm(normal) if the norm is not 0, else normal
Normalize(a) ==
    IF NormSquared(a) # 0
    THEN <<<<a[1], NormSquared(a)>>, <<a[2], NormSquared(a)>>, <<a[3], NormSquared(a)>>>>
    ELSE <<<<a[1], 1>>, <<a[2], 1>>, <<a[3], 1>>>>

\* face[0][0], face[1][0], face[2][0] and the three vertex lookups
FaceRaises(vertices, face) ==
    Len(face) < 3 \/ \E j \in 1..3 : ~PyInRange(vertices, face[j][1])

FaceNormal(vertices, face) ==
    LET v0 == PyAt(vertices, face[1][1])
        v1 == PyAt(vertices, face[2][1])
        v2 == PyAt(vertices, face[3][1])
    IN  Normalize(Cross(Sub(v1, v0), Sub(v2, v0)))

\* the same rewriting the first corner only
WithNormalFirstCorner(face, normal_idx) ==
    [i \in 1..Len(face) |->
        IF i = 1 THEN <<face[i][1], <<normal_idx>> >> ELSE face[i]]

\* for i in range(len(face)): face[i] = (face[i][0], normal_idx)
WithNormal(face, normal_idx) ==
    [i \in 1..Len(face) |-> <<face[i][1], <<normal_idx>> >>]

\* the loop from face i on; a face that raises ends it with the faces before
\* it rewritten and has_normals as it was
RECURSIVE CalcFrom(_, _)
CalcFrom(m, i) ==
    IF i > Len(m.faces)
    THEN [model |-> [m EXCEPT !.has_normals = TRUE], err |-> "ok"]
    ELSE IF FaceRaises(m.vertices, m.faces[i])
    THEN [model |-> m, err |-> "IndexError"]
    ELSE CalcFrom([m EXCEPT !.normals = Append(@, FaceNormal(m.vertices, m.faces[i])),
                            !.faces[i] = WithNormal(@, Len(m.normals))],
                  i + 1)

calculate_normals(m) == CalcFrom([m EXCEPT !.normals = <<>>], 1)

(***************************************************************************)
(* OBJModel.cube                                                           *)
(***************************************************************************)
P3(x, y, z) == <<<<x, 1>>, <<y, 1>>, <<z, 1>>>>
Tri(a, b, c) == <<<<a, <<>> >>, <<b, <<>> >>, <<c, <<>> >>>>

CubeVertices ==
    <<P3(-1, -1, -1), P3(1, -1, -1), P3(1, 1, -1), P3(-1, 1, -1),
      P3(-1, -1, 1), P3(1, -1, 1), P3(1, 1, 1), P3(-1, 1, 1)>>

CubeFaces ==
    <<Tri(0, 1, 2), Tri(0, 2, 3), Tri(4, 6, 5), Tri(4, 7, 6),
      Tri(0, 3, 7), Tri(0, 7, 4), Tri(1, 5, 6), Tri(1, 6, 2),
      Tri(3, 2, 6), Tri(3, 6, 7), Tri(0, 4, 5), Tri(0, 5, 1)>>

cube ==
    calculate_normals([EmptyModel EXCEPT !.vertices = CubeVertices,
                                         !.faces = CubeFaces]).model

(***************************************************************************)
(* GLWidget.init_vbo and GLWidget.delete_vbo.  vertex_buffer = 0 stands    *)
(* for None; glGenBuffers never returns 0.  live is the set of buffer      *)
(* names generated and not deleted.                                        *)
(***************************************************************************)
Zero3 == <<<<0, 1>>, <<0, 1>>, <<0, 1>>>>

RECURSIVE Flatten(_)
Flatten(ss) == IF ss = <<>> THEN <<>> ELSE Head(ss) \o Flatten(Tail(ss))

\* the same without the has_normals test: the normal is always looked up
CornerNormalErrorStrict(m, c) ==
    IF c[2] = <<>> THEN "TypeError"
    ELSE IF ~PyInRange(m.normals, c[2][1]) THEN "IndexError"
    ELSE "ok"

\* self.object.normals[normal_idx] if self.object.has_normals else [0.0, 0.0, 0.0]
CornerNormalError(m, c) ==
    IF ~m.has_normals THEN "ok"
    ELSE IF c[2] = <<>> THEN "TypeError"
    ELSE IF ~PyInRange(m.normals, c[2][1]) THEN "IndexError"
    ELSE "ok"

CornerNormal(m, c) == IF m.has_normals THEN PyAt(m.normals, c[2][1]) ELSE Zero3

CornerBuildError(m, c) ==
    IF ~PyInRange(m.vertices, c[1]) THEN "IndexError" ELSE CornerNormalError(m, c)

\* data.extend(vertex + normal)
CornerData(m, c) == PyAt(m.vertices, c[1]) \o CornerNormal(m, c)

BuildError(m) ==
    LET cs == Flatten(m.faces)
        bad == {i \in 1..Len(cs) : CornerBuildError(m, cs[i]) # "ok"}
    IN  IF bad = {} THEN "ok" ELSE CornerBuildError(m, cs[Min(bad)])

BuildData(m) ==
    LET cs == Flatten(m.faces)
    IN  Flatten([i \in 1..Len(cs) |-> CornerData(m, cs[i])])

\* glGenBuffers(1): a name not in use
FreshBuffer(lv) == Min({n \in 1..(Cardinality(lv) + 1) : n \notin lv})

Widget(vb, vc, lv) == [vertex_buffer |-> vb, vertex_count |-> vc, live |-> lv]

\* the widget x after init_vbo on model m, how the call ended, the data
\* built and the buffer name generated (0: none)
init_vbo(m, x) ==
    IF m.none THEN [w |-> x, err |-> "ok", out |-> <<>>, gen |-> 0]
    ELSE IF BuildError(m) # "ok"
    THEN [w |-> x, err |-> BuildError(m), out |-> <<>>, gen |-> 0]
    ELSE [w |-> Widget(FreshBuffer(x.live), Len(BuildData(m)) \div 6,
                       x.live \cup {FreshBuffer(x.live)}),
          err |-> "ok", out |-> BuildData(m), gen |-> FreshBuffer(x.live)]

\* the same without the glDeleteBuffers call
delete_vbo_forget(x) ==
    IF x.vertex_buffer # 0 THEN Widget(0, 0, x.live) ELSE x

\* glDeleteBuffers on the buffer held, if one is held
delete_vbo(x) ==
    IF x.vertex_buffer # 0
    THEN Widget(0, 0, x.live \ {x.vertex_buffer})
    ELSE x

(***************************************************************************)
(* The OBJ files read.  A file is a block of `v` lines, a block of `vn`    *)
(* lines and up to n further lines: `f` lines of 1..MaxCorners corners     *)
(* (corner i names vertex i) written in one style, a `vt` line, a `v` line *)
(* one field short and an `f` line whose first index is "1.0".             *)
(***************************************************************************)
VLine(x, y, z) == Line("v", <<DecTok(x), DecTok(y), DecTok(z)>>)

VertexBlocks ==
    { <<>>,
      <<VLine(0, 0, 0), VLine(1, 0, 0), VLine(1, 1, 0)>>,
      <<VLine(0, 0, 0), VLine(1, 0, 0), VLine(2, 0, 0)>>,
      <<VLine(0, 0, 0), VLine(1, 0, 0), VLine(1, 1, 0), VLine(0, 1, 0)>> }

NormalBlocks == { <<>>, <<Line("vn", <<DecTok(0), DecTok(0), DecTok(1)>>)>> }

Styles == {"plain", "full", "mixed"}

\* "i", "i//1", and by position "i//1", "i/1", "i//", "i"
CornerText(i, style) ==
    CASE style = "plain" -> <<IntTok(i)>>
      [] style = "full" -> <<IntTok(i), EmptyTok, IntTok(1)>>
      [] style = "mixed" /\ i % 4 = 1 -> <<IntTok(i), EmptyTok, IntTok(1)>>
      [] style = "mixed" /\ i % 4 = 2 -> <<IntTok(i), IntTok(1)>>
      [] style = "mixed" /\ i % 4 = 3 -> <<IntTok(i), EmptyTok, EmptyTok>>
      [] OTHER -> <<IntTok(i)>>

FLine(k, style) == Line("f", [i \in 1..k |-> CornerText(i, style)])

BodyLines(style) ==
    {FLine(k, style) : k \in 1..MaxCorners}
    \cup { Line("vt", <<DecTok(0), DecTok(0)>>),
           Line("v", <<DecTok(1), DecTok(0)>>),
           Line("f", <<<<DecTok(1)>>, <<IntTok(2)>>, <<IntTok(3)>>>>) }

SeqsUpTo(S, n) == UNION {[1..m -> S] : m \in 0..n}

Files(n) ==
    UNION { {vb \o nb \o body : body \in SeqsUpTo(BodyLines(style), n)} :
            <<vb, nb, style>> \in VertexBlocks \X NormalBlocks \X Styles }

(***************************************************************************)
(* The operations on one model, called directly.  last records the most    *)
(* recent call: its name, how it ended ("ok" or the exception raised),     *)
(* the data init_vbo built and the buffer name it generated.  file is the  *)
(* OBJ file on disk: any of the files above, the same for every call of    *)
(* one behaviour.                                                          *)
(***************************************************************************)
Done(op, err, out, gen) == [op |-> op, err |-> err, out |-> out, gen |-> gen]

w == Widget(vertex_buffer, vertex_count, live)

SetWidget(x) ==
    /\ vertex_buffer' = x.vertex_buffer
    /\ vertex_count' = x.vertex_count
    /\ live' = x.live

Init ==
    /\ file \in Files(MaxLines)
    /\ object = EmptyModel
    /\ vertex_buffer = 0
    /\ vertex_count = 0
    /\ live = {}
    /\ last = Done("init", "ok", <<>>, 0)

\* object = OBJModel(filename): a constructor that raises binds nothing
Construct ==
    LET r == NewModel(file)
    IN  /\ object' = IF r.err = "ok" THEN r.model ELSE object
        /\ last' = Done("OBJModel", r.err, <<>>, 0)
        /\ UNCHANGED <<file, vertex_buffer, vertex_count, live>>

\* object.calculate_normals()
CallCalculateNormals ==
    LET r == calculate_normals(object)
    IN  /\ object' = r.model
        /\ last' = Done("calculate_normals", r.err, <<>>, 0)
        /\ UNCHANGED <<file, vertex_buffer, vertex_count, live>>

\* object = OBJModel.cube()
CallCube ==
    /\ object' = cube
    /\ last' = Done("cube", "ok", <<>>, 0)
    /\ UNCHANGED <<file, vertex_buffer, vertex_count, live>>

Next == Construct \/ CallCalculateNormals \/ CallCube

Spec == Init /\ [][Next]_vars

(***************************************************************************)
(* The same, with the buffer operations of a widget holding the model.     *)
(***************************************************************************)
InitBuild ==
    /\ file \in Files(MaxLinesGL)
    /\ object = EmptyModel
    /\ vertex_buffer = 0
    /\ vertex_count = 0
    /\ live = {}
    /\ last = Done("init", "ok", <<>>, 0)

\* widget.init_vbo()
CallInitVbo ==
    LET r == init_vbo(object, w)
    IN  /\ Cardinality(live) < MaxBuffers
        /\ SetWidget(r.w)
        /\ last' = Done("init_vbo", r.err, r.out, r.gen)
        /\ UNCHANGED <<file, object>>

\* widget.delete_vbo()
CallDeleteVbo ==
    /\ SetWidget(delete_vbo(w))
    /\ last' = Done("delete_vbo", "ok", <<>>, 0)
    /\ UNCHANGED <<file, object>>

NextBuild ==
    Construct \/ CallCalculateNormals \/ CallCube \/ CallInitVbo \/ CallDeleteVbo

SpecBuild == InitBuild /\ [][NextBuild]_vars

(***************************************************************************)
(* GLWidget: the handlers that replace the model.                          *)
(***************************************************************************)
Handled(obj, x, err, out, gen) ==
    [object |-> obj, w |-> x, err |-> err, out |-> out, gen |-> gen]

\* if not self.object.has_normals: self.object.calculate_normals()
EnsureNormals(m) ==
    IF ~m.has_normals THEN calculate_normals(m) ELSE [model |-> m, err |-> "ok"]

\* loadOBJ from delete_vbo to init_vbo; an exception leaves what was assigned
LoadOBJ(obj, x, src) ==
    LET d == delete_vbo(x)
        p == NewModel(src)
        c == EnsureNormals(p.model)
        b == init_vbo(c.model, d)
    IN  IF p.err # "ok" THEN Handled(obj, d, p.err, <<>>, 0)
        ELSE IF c.err # "ok" THEN Handled(c.model, d, c.err, <<>>, 0)
        ELSE Handled(c.model, b.w, b.err, b.out, b.gen)

\* addCube from delete_vbo to init_vbo
AddCube(x) ==
    LET b == init_vbo(cube, delete_vbo(x))
    IN  Handled(cube, b.w, b.err, b.out, b.gen)

InitWidget ==
    /\ file \in Files(MaxLinesGL)
    /\ object = NoObject
    /\ vertex_buffer = 0
    /\ vertex_count = 0
    /\ live = {}
    /\ last = Done("init", "ok", <<>>, 0)

loadOBJ ==
    LET r == LoadOBJ(object, w, file)
    IN  /\ object' = r.object
        /\ SetWidget(r.w)
        /\ last' = Done("loadOBJ", r.err, r.out, r.gen)
        /\ UNCHANGED file

addCube ==
    LET r == AddCube(w)
    IN  /\ object' = r.object
        /\ SetWidget(r.w)
        /\ last' = Done("addCube", r.err, r.out, r.gen)
        /\ UNCHANGED file

closeEvent ==
    /\ SetWidget(delete_vbo(w))
    /\ last' = Done("closeEvent", "ok", <<>>, 0)
    /\ UNCHANGED <<file, object>>

NextWidget == loadOBJ \/ addCube \/ closeEvent

SpecWidget == InitWidget /\ [][NextWidget]_vars

(***************************************************************************)
(* Properties.                                                             *)
(***************************************************************************)
Returned(op) == last.op = op /\ last.err = "ok"

AllTriangles(m) == \A i \in 1..Len(m.faces) : Len(m.faces[i]) = 3

LinesWith(src, d) == {i \in 1..Len(src) : src[i].dir = d}

\* the triangles a face line of k corners stands for: max(1, k - 2)
TrianglesOf(k) == IF k - 2 > 1 THEN k - 2 ELSE 1

\* the triangles of the face lines before line i
RECURSIVE FacesBefore(_, _)
FacesBefore(src, i) ==
    IF i <= 1 THEN 0
    ELSE FacesBefore(src, i - 1)
         + (IF src[i - 1].dir = "f" THEN TrianglesOf(Len(src[i - 1].args)) ELSE 0)

\* C1: every face stored in the model's face list has exactly 3 face-vertex
\* entries, after OBJModel(filename) and any calculate_normals after it.
C1_EveryFaceHasThreeCorners == AllTriangles(object)

HasShortFaceLine(src) ==
    \E i \in LinesWith(src, "f") : Len(src[i].args) < 3

\* C2: OBJModel(filename) on a file holding an `f` line of fewer than 3
\* corners raises instead of completing and storing a face.
C2_ShortFaceLineFails ==
    (last.op = "OBJModel" /\ HasShortFaceLine(file)) => last.err # "ok"

Corners(m) == Flatten(m.faces)

SomeNormalIndexAbsent(m) ==
    \E i \in 1..Len(Corners(m)) : Corners(m)[i][2] = <<>>

VertexIndicesInRange(m) ==
    \A i \in 1..Len(Corners(m)) : PyInRange(m.vertices, Corners(m)[i][1])

\* the normal floats of corner c of interleaved data
NormalAt(data, c) == SubSeq(data, 6 * (c - 1) + 4, 6 * c)

C4_ComputeNormalsNeverFails ==
    (last.op = "calculate_normals" /\ AllTriangles(object)) => last.err = "ok"

\* C5 as stated: has_normals is true exactly when the normal sequence is
\* non-empty.
C5_HasNormalsIffNonEmpty ==
    object.has_normals <=> (object.normals # <<>>)

\* C5 as amended: has_normals is a flag each operation sets on returning.  A
\* new model has it false with no normals; a parse leaves it equal to (normal
\* sequence non-empty); calculate_normals leaves it true with one normal per
\* face, so true with an empty normal sequence exactly when the model has no
\* faces; cube returns it true with 12 normals.
C5_FlagSetByEachOperation ==
    /\ last.op = "init" => (~object.has_normals /\ object.normals = <<>>)
    /\ Returned("OBJModel") => (object.has_normals <=> object.normals # <<>>)
    /\ Returned("calculate_normals") =>
          /\ object.has_normals
          /\ Len(object.normals) = Len(object.faces)
    /\ Returned("cube") => (object.has_normals /\ Len(object.normals) = 12)

\* calculate_normals returned on a model parsed from 3 `v` lines and no `f`
\* line: has_normals true, no normals
C5_Witness ==
    /\ Returned("calculate_normals")
    /\ Len(object.vertices) = 3
    /\ object.faces = <<>>
    /\ object.normals = <<>>
    /\ object.has_normals

\* C6: a calculate_normals that returns leaves one normal per face, gives the
\* 3 corners of face i (counted from 0) normal index i and keeps their vertex
\* indices, whatever normals the model held; one more call changes nothing.
C6_OneFlatNormalPerFace ==
    [][(last'.op = "calculate_normals" /\ last'.err = "ok") =>
          /\ Len(object'.normals) = Len(object.faces)
          /\ Len(object'.faces) = Len(object.faces)
          /\ \A i \in 1..Len(object.faces) :
                /\ Len(object'.faces[i]) = 3
                /\ \A j \in 1..3 :
                      object'.faces[i][j] = <<object.faces[i][j][1], <<i - 1>> >>
          /\ Returned("calculate_normals") =>
                (object'.normals = object.normals /\ object'.faces = object.faces)
      ]_vars

\* the two triangles of a quad parsed with a `vn` line, after
\* calculate_normals: two normals where the file gave one
C6_Witness ==
    /\ Returned("calculate_normals")
    /\ LinesWith(file, "vn") # {}
    /\ Len(object.vertices) = 4
    /\ Len(object.faces) = 2
    /\ Len(object.normals) = 2
    /\ object.faces[2][3][2] = <<1>>

\* C7: init_vbo on a model with normals emits 6 floats per corner of 3-corner
\* faces: 18 * face_count floats, and vertex_count = 3 * face_count.
C7_BufferLength ==
    (Returned("init_vbo") /\ object.has_normals) =>
        /\ Len(last.out) = 18 * Len(object.faces)
        /\ vertex_count = 3 * Len(object.faces)

\* C8: a parse that returns has stored one vertex per `v` line, one normal per
\* `vn` line and max(1, k - 2) faces per `f` line of k corners; a line of 3
\* corners is stored as it is and a line of k > 3 corners c as the fan
\* [c0, c(t), c(t+1)], t = 1..k-2, in order.
C8_FanTriangulation ==
    Returned("OBJModel") =>
        /\ Len(object.vertices) = Cardinality(LinesWith(file, "v"))
        /\ Len(object.normals) = Cardinality(LinesWith(file, "vn"))
        /\ Len(object.faces) = FacesBefore(file, Len(file) + 1)
        /\ \A i \in LinesWith(file, "f") :
              LET c == FaceValue(file[i].args)
                  k == Len(c)
                  o == FacesBefore(file, i)
              IN  /\ k = 3 => object.faces[o + 1] = c
                  /\ k > 3 => \A t \in 1..(k - 2) :
                        object.faces[o + t] = <<c[1], c[t + 1], c[t + 2]>>

\* a file of 4 vertices with a 4-corner and a 3-corner face line: 3 triangles
C8_Witness ==
    /\ Returned("OBJModel")
    /\ Len(object.vertices) = 4
    /\ \E i, j \in LinesWith(file, "f") :
          Len(file[i].args) = 4 /\ Len(file[j].args) = 3
    /\ Len(object.faces) = 3

\* where corner j of a face line of k corners, whose faces start after o
\* stored faces, is stored: <<face, corner>>
StoredAt(o, k, j) ==
    IF k <= 3 THEN <<o + 1, j>>
    ELSE IF j = 1 THEN <<o + 1, 1>>
    ELSE IF j < k THEN <<o + j - 1, 2>>
    ELSE <<o + k - 2, 3>>

\* C9: every corner of every parsed `f` line is stored with the first
\* slash-delimited field minus 1 as vertex index, and with the third field
\* minus 1 as normal index when that field is there and not empty, and with no
\* normal index otherwise.
C9_IndexConversion ==
    Returned("OBJModel") =>
        \A i \in LinesWith(file, "f") : \A j \in 1..Len(file[i].args) :
            LET vals == file[i].args[j]
                at == StoredAt(FacesBefore(file, i), Len(file[i].args), j)
                stored == object.faces[at[1]][at[2]]
            IN  /\ stored[1] = vals[1].n - 1
                /\ IF Len(vals) >= 3 /\ vals[3] # EmptyTok
                   THEN stored[2] = <<vals[3].n - 1>>
                   ELSE stored[2] = <<>>

\* a parsed line "f 1//1 2/1 3//": index 1 stored as 0, the normal index of
\* "1//1" stored as 0, those of "2/1" and "3//" absent
C9_Witness ==
    /\ Returned("OBJModel")
    /\ \E i \in LinesWith(file, "f") :
          /\ Len(file[i].args) = 3
          /\ Len(file[i].args[2]) = 2
          /\ file[i].args[3][3] = EmptyTok
    /\ object.faces[1] = << <<0, <<0>> >>, <<1, <<>> >>, <<2, <<>> >> >>

\* C10: whatever loadOBJ, addCube and closeEvent calls were made, the only
\* buffer generated and not deleted is the one vertex_buffer names, and none
\* is after closeEvent.
C10_AtMostOneLiveBuffer ==
    /\ Cardinality(live) <= 1
    /\ live \subseteq {vertex_buffer}
    /\ last.gen # 0 => live = {last.gen}
    /\ last.op = "closeEvent" => live = {}

\* a loadOBJ that raised while parsing, called on a widget showing the cube:
\* the cube's buffer is deleted and none is generated
C10_Witness ==
    /\ last.op = "loadOBJ"
    /\ last.err = "ValueError"
    /\ object = cube
    /\ live = {}
    /\ vertex_buffer = 0

====
